---- MODULE Spec2Model ----
(***************************************************************************)
(* A model of pymp's parallel region (src/pymp/__init__.py): the fork      *)
(* based lifecycle of `Parallel` (__enter__ / __exit__), the static        *)
(* schedule `range`, the dynamic schedule `xrange` with `_QueueIterator`,  *)
(* and the cross-process exception aggregation.                            *)
(*                                                                         *)
(* Every OS process has its own copy of the Python objects (fork copies    *)
(* the address space): `mem`, `level`, `nested` are per process.  What     *)
(* lives in the manager or in shared memory is one value for the whole     *)
(* process tree: `num_procs`, the queues, `thread_loop_ids`, `data`.       *)
(***************************************************************************)
EXTENDS Integers, Sequences, FiniteSets, Bags, TLC

\* ------------------------------------------------------------------ bounds
MaxProcs   == 3      \* process ids available to the whole run (main included)
MaxRegions == 3      \* `Parallel` objects constructed in one run
BodyLen    == 1      \* writes to shared state a region body performs
MaxLoops   == 2      \* successive xrange loops in a region body
MaxItems   == 2      \* items of one xrange loop
MaxStop    == 4      \* largest start/stop argument of range
MaxWorkers == 2      \* processes of the region whose body runs xrange loops

\* `None` of Python, for `num_threads=None` and `thread_limit = None`.
None == -1

\* The pid of the process that runs the program.
Main    == 1
\* _shared._NUM_PROCS.value outside every region: the main process.
InitialProcs == 1
Procs   == 1..MaxProcs
Regions == 1..MaxRegions

\* Inputs of the environment: the explicit num_threads argument, the
\* PYMP_NUM_THREADS list and the thread limit.
Requests   == {None, 2, 4}
ConfigLists == {<<2>>, <<1, 2>>}
Limits     == {None, 2, 3}

VARIABLES
    \* --- shared by the whole process tree
    num_procs,        \* _shared._NUM_PROCS.value
    exception_queue,  \* [Regions -> Seq(thread_num)]: self._exception_queue
    thread_loop_ids,  \* [Regions -> Seq(Int)]: self._thread_loop_ids
    dynamic_queue,    \* [Regions -> Seq(item)]: self._dynamic_queue
    data,             \* a shared container the region bodies write to
    print_lock,       \* _shared._PRINT_LOCK: the pid that holds it, 0 if free
    \* --- configuration (pymp.config)
    cfg_num_threads,  \* _config.num_threads
    thread_limit,     \* [Procs -> _config.thread_limit in each process]
    nested,           \* [Procs -> BOOLEAN]: _config.nested in each process
    \* --- the code of the region bodies, the same in every process
    body,             \* [writes, loops, items, range]: what a region body does
    \* --- per process
    proc,             \* [Procs -> {"unborn", "running", "exited"}]
    level,            \* [Procs -> Nat]: Parallel._level in each process
    mem,              \* [Procs -> [regions in memory -> object fields]]
    stack,            \* [Procs -> Seq(Regions)]: the `with` blocks entered
    pc,               \* [Procs -> position in __enter__/body/__exit__]
    joined,           \* [Procs -> Nat]: pids already waited for in __exit__
    iter,             \* [Procs -> loop_id of the live _QueueIterator or None]
    spent,            \* [Procs -> loop_id of a kept, exhausted iterator or None]
    \* --- history (read by no action's guard or effect on the program state)
    owner,            \* [Regions -> process that constructed it, 0 if none]
    ctor_arg,         \* [Regions -> the num_threads argument of the constructor]
    used,             \* [Procs -> SUBSET Regions]: objects whose entry returned
    attempt,          \* the last __enter__ call and its outcome
    members,          \* [Regions -> set of <<pid, thread_num, forked by>>]
    faulted,          \* [Regions -> thread_nums whose body raised]
    raised,           \* [Regions -> aggregated failures raised at exit]
    left,             \* [Regions -> TRUE once the coordinator's exit completed]
    yielded,          \* bag of items handed out by _QueueIterator.next
    chunks,           \* [<<region, thread_num>> -> what range() returned]
    populate_log      \* [Regions -> Seq(loop_id)]: loops the queue was filled for

shared == <<num_procs, exception_queue, thread_loop_ids, dynamic_queue, data,
            print_lock>>
config == <<cfg_num_threads, thread_limit, nested, body>>
local  == <<proc, level, mem, stack, pc, joined, iter, spent>>
hist   == <<owner, ctor_arg, used, attempt, members, faulted, raised, left,
           yielded, chunks, populate_log>>
vars   == <<shared, config, local, hist>>

\* ---------------------------------------------------------------- helpers
Min(a, b) == IF a < b THEN a ELSE b

RECURSIVE SeqMin(_)
\* Mutant of SeqMax: the least loop id, the slowest worker's.
SeqMin(s) == IF Len(s) = 1 THEN s[1]
             ELSE LET m == SeqMin(Tail(s)) IN IF s[1] < m THEN s[1] ELSE m

RECURSIVE SeqMax(_)
\* max(self._thread_loop_ids), lines 169 and 204.
SeqMax(s) == IF Len(s) = 1 THEN s[1]
             ELSE LET m == SeqMax(Tail(s)) IN IF s[1] > m THEN s[1] ELSE m

Top(p) == stack[p][Len(stack[p])]

Born == {p \in Procs : proc[p] # "unborn"}

\* The pid the next os.fork() returns.
NextPid == Cardinality(Born) + 1

NoAttempt == [pid |-> 0, region |-> 0, entered |-> FALSE, level |-> 0,
              nested |-> FALSE, arg |-> None, result |-> "none",
              requested |-> None, resolved |-> None]

\* Parallel.__init__
NewParallel(num_threads) ==
    [num_threads |-> num_threads, is_fork |-> FALSE, pids |-> <<>>,
     thread_num |-> 0]

\* ------------------------------------------------------------------- Init
\* The state of a fresh interpreter (no region entered, one process) for a
\* run with the given configuration and region body.
Start(num_threads, limit, nest, code) ==
    /\ num_procs = InitialProcs
    /\ exception_queue = [r \in Regions |-> <<>>]
    /\ thread_loop_ids = [r \in Regions |-> <<>>]
    /\ dynamic_queue = [r \in Regions |-> <<>>]
    /\ data = {}
    /\ print_lock = 0
    /\ cfg_num_threads = num_threads
    /\ thread_limit = [p \in Procs |-> limit]
    /\ nested = [p \in Procs |-> IF p = Main THEN nest ELSE FALSE]
    /\ body = code
    /\ proc = [p \in Procs |-> IF p = Main THEN "running" ELSE "unborn"]
    /\ level = [p \in Procs |-> 0]
    /\ mem = [p \in Procs |-> <<>>]
    /\ stack = [p \in Procs |-> <<>>]
    /\ pc = [p \in Procs |-> IF p = Main THEN "body" ELSE "none"]
    /\ joined = [p \in Procs |-> 0]
    /\ iter = [p \in Procs |-> None]
    /\ spent = [p \in Procs |-> None]
    /\ owner = [r \in Regions |-> 0]
    /\ ctor_arg = [r \in Regions |-> None]
    /\ used = [p \in Procs |-> {}]
    /\ attempt = NoAttempt
    /\ members = [r \in Regions |-> {}]
    /\ faulted = [r \in Regions |-> {}]
    /\ raised = [r \in Regions |-> 0]
    /\ left = [r \in Regions |-> FALSE]
    /\ yielded = EmptyBag
    /\ chunks = <<>>
    /\ populate_log = [r \in Regions |-> <<>>]

\* No call of range in the body.
NoRange == <<>>

EmptyBody == [writes |-> 0, loops |-> 0, items |-> 0, range |-> NoRange]

\* Runs whose region bodies only enter further regions, under every
\* configuration.
Init ==
    \E num_threads \in ConfigLists, limit \in Limits :
        Start(num_threads, limit, FALSE, EmptyBody)

\* ---------------------------------------------------------- configuration
\* pymp.config.nested = b, in the calling process.
SetNested(p, b) ==
    /\ pc[p] = "body"
    /\ nested[p] # b
    /\ nested' = [nested EXCEPT ![p] = b]
    /\ UNCHANGED <<shared, cfg_num_threads, thread_limit, body, local, hist>>

\* pymp.config.thread_limit = v, in the calling process (the tests assign
\* the configuration at run time, also inside a region body).
SetThreadLimit(p, v) ==
    /\ pc[p] = "body"
    /\ thread_limit[p] # v
    /\ thread_limit' = [thread_limit EXCEPT ![p] = v]
    /\ UNCHANGED <<shared, cfg_num_threads, nested, body, local, hist>>

\* ------------------------------------------------------------------ entry
\* __enter__, lines 46-55: the value of self._num_threads after resolution.
Resolve(o, lvl) ==
    IF o.num_threads # None THEN o.num_threads
    ELSE IF Len(cfg_num_threads) = 1 THEN cfg_num_threads[1]
    ELSE cfg_num_threads[lvl + 1]

\* __enter__, lines 47-48: the assertion on the configuration list.
ConfigOk(o, lvl) ==
    \/ o.num_threads # None
    \/ Len(cfg_num_threads) = 1
    \/ Len(cfg_num_threads) > lvl

\* Mutant of NestingOk: the gate lets one level of nesting through.
NestingOkOneLevel(p, lvl) == nested[p] \/ lvl <= 1

\* __enter__, lines 56-58: the nesting gate.
NestingOk(p, lvl) == nested[p] \/ lvl = 0

\* Mutant of Clamp: the limit applied to the region alone, whatever the
\* number of processes already active.
ClampIgnoringActive(limit, n, num_active) ==
    IF limit # None THEN Min(n, limit) ELSE n

\* __enter__, lines 63-67: the thread limit `limit` of the calling process
\* applied to n, with the counter read under _shared._LOCK.
Clamp(limit, n, num_active) ==
    IF limit # None THEN Min(n, limit - num_active + 1) ELSE n

\* Which of __enter__'s assertions fails first, "ok" if none does.
EnterResult(p, o) ==
    IF Len(o.pids) # 0 THEN "used"
    ELSE IF ~ConfigOk(o, level[p]) THEN "config"
    ELSE IF ~NestingOk(p, level[p]) THEN "nested"
    ELSE "ok"

\* Forks that entered coordinators still have to make (each needs a pid).
RECURSIVE SumOver(_, _)
SumOver(f, S) == IF S = {} THEN 0
                 ELSE LET x == CHOOSE y \in S : TRUE
                      IN f[x] + SumOver(f, S \ {x})
ForksLeft(p) ==
    IF pc[p] = "fork"
    THEN mem[p][Top(p)].num_threads - 1 - Len(mem[p][Top(p)].pids)
    ELSE 0
PendingForks == SumOver([p \in Procs |-> ForksLeft(p)], Procs)

\* __enter__ up to the fork loop (lines 37-69), called by p on object r,
\* whose fields are o.
EnterBody(p, r, o) ==
    LET lvl == level[p]
        res == EnterResult(p, o)
        req == IF res \in {"ok", "nested"} THEN Resolve(o, lvl) ELSE None
        n   == IF res = "ok" THEN Clamp(thread_limit[p], req, num_procs)
               ELSE None
        att == [pid |-> p, region |-> r, entered |-> r \in used[p],
                level |-> lvl, nested |-> nested[p],
                arg |-> ctor_arg'[r], result |-> res, requested |-> req,
                resolved |-> n]
        keep == [x \in DOMAIN mem[p] \cup {r} |->
                    IF x = r THEN o ELSE mem[p][x]]
    IN
    /\ attempt' = att
    /\ CASE res = "ok" ->
              /\ Cardinality(Born) + PendingForks + (n - 1) <= MaxProcs
              /\ level' = [level EXCEPT ![p] = lvl + 1]
              /\ num_procs' = num_procs + n - 1
              /\ mem' = [mem EXCEPT ![p] = [keep EXCEPT ![r].num_threads = n]]
              /\ thread_loop_ids' =
                    [thread_loop_ids EXCEPT ![r] = [i \in 1..n |-> -1]]
              /\ stack' = [stack EXCEPT ![p] = Append(@, r)]
              /\ pc' = [pc EXCEPT ![p] = IF n > 1 THEN "fork" ELSE "body"]
              /\ used' = [used EXCEPT ![p] = @ \cup {r}]
              /\ members' = [members EXCEPT ![r] =
                                @ \cup {<<p, o.thread_num, 0>>}]
              /\ UNCHANGED <<exception_queue, dynamic_queue, data, print_lock,
                             config,
                             proc, joined, iter, spent, faulted, raised, left,
                             yielded, chunks, populate_log>>
         [] res = "nested" ->
              /\ mem' = [mem EXCEPT
                           ![p] = [keep EXCEPT ![r].num_threads = req]]
              /\ UNCHANGED <<shared, config, proc, level, stack, pc, joined,
                             iter, spent, used, members, faulted, raised, left,
                             yielded, chunks, populate_log>>
         [] OTHER ->
              /\ mem' = [mem EXCEPT ![p] = keep]
              /\ UNCHANGED <<shared, config, proc, level, stack, pc, joined,
                             iter, spent, used, members, faulted, raised, left,
                             yielded, chunks, populate_log>>

\* `with pymp.Parallel(arg):` -- Parallel.__init__ builds a new object in
\* the caller's memory and __enter__ is called on it.
EnterNew(p, arg) ==
    /\ pc[p] = "body"
    /\ \E r \in Regions :
        /\ owner[r] = 0
        /\ \A q \in Regions : q < r => owner[q] # 0
        /\ owner' = [owner EXCEPT ![r] = p]
        /\ ctor_arg' = [ctor_arg EXCEPT ![r] = arg]
        /\ EnterBody(p, r, NewParallel(arg))

\* __enter__ called again on an object of the caller's whose earlier
\* __enter__ raised.
EnterAgain(p, r) ==
    /\ pc[p] = "body"
    /\ r \in DOMAIN mem[p]
    /\ owner[r] = p
    /\ r \notin used[p]
    /\ UNCHANGED <<owner, ctor_arg>>
    /\ EnterBody(p, r, mem[p][r])

\* Mutant of ChildFields: the forked process does not record its index.
ChildFieldsNoIndex(o, thread_num) == [o EXCEPT !.is_fork = TRUE]

\* __enter__, lines 72-76: the object as the forked process sees it.
ChildFields(o, thread_num) ==
    [o EXCEPT !.is_fork = TRUE, !.thread_num = thread_num]

\* One iteration of the fork loop (lines 70-79); after the last one the
\* coordinator returns from __enter__.  The child breaks out of the loop
\* and returns at once.
Fork(p) ==
    /\ pc[p] = "fork"
    /\ LET r == Top(p)
           o == mem[p][r]
           thread_num == Len(o.pids) + 1
           pid == NextPid
       IN
       /\ pid \in Procs
       /\ proc' = [proc EXCEPT ![pid] = "running"]
       /\ mem' = [mem EXCEPT
                    ![p][r].pids = Append(@, pid),
                    ![pid] = [mem[p] EXCEPT
                                ![r] = ChildFields(o, thread_num)]]
       /\ level' = [level EXCEPT ![pid] = level[p]]
       /\ stack' = [stack EXCEPT ![pid] = stack[p]]
       /\ nested' = [nested EXCEPT ![pid] = nested[p]]
       /\ thread_limit' = [thread_limit EXCEPT ![pid] = thread_limit[p]]
       /\ used' = [used EXCEPT ![pid] = used[p]]
       /\ pc' = [pc EXCEPT
                    ![pid] = "body",
                    ![p] = IF thread_num + 1 < o.num_threads
                           THEN "fork" ELSE "body"]
       /\ members' = [members EXCEPT ![r] =
                        @ \cup {<<pid, mem'[pid][r].thread_num, p>>}]
    /\ UNCHANGED <<shared, cfg_num_threads, body, joined, iter, spent, owner,
                   ctor_arg, attempt, faulted, raised, left, yielded, chunks,
                   populate_log>>

\* ------------------------------------------------------- static schedule
\* Python's range(start, stop, step) for step # 0, as a sequence.
PyRange(start, stop, step) ==
    LET len == IF step > 0
               THEN IF start < stop THEN ((stop - start - 1) \div step) + 1
                    ELSE 0
               ELSE IF start > stop
                    THEN ((start - stop - 1) \div (0 - step)) + 1
                    ELSE 0
    IN [i \in 1..len |-> start + (i - 1) * step]

\* Python's s[a:b] for 0 <= a: indices past the end are cut off.
Slice(s, a, b) == SubSeq(s, Min(a, Len(s)) + 1, Min(b, Len(s)))

RECURSIVE SeqSum(_)
SeqSum(s) == IF s = <<>> THEN 0 ELSE s[1] + SeqSum(Tail(s))

\* Mutant of Schedule: the remainder goes to one worker too many.
ScheduleOffByOne(len, num_threads) ==
    [i \in 1..num_threads |->
        IF (i - 1) <= len % num_threads THEN (len \div num_threads) + 1
        ELSE len \div num_threads]

\* range, lines 150-154: the chunk size of every thread index (the list is
\* 0-based in Python, 1-based here).
Schedule(len, num_threads) ==
    [i \in 1..num_threads |->
        IF (i - 1) < len % num_threads THEN (len \div num_threads) + 1
        ELSE len \div num_threads]

\* range, lines 147-149: the full index list of the call.
FullList(start, stop, step) ==
    IF stop = None THEN PyRange(0, start, step)
    ELSE PyRange(start, stop, step)

\* Parallel.range (lines 141-158) called on the object with fields o.
RangeChunk(o, start, stop, step) ==
    LET full_list == FullList(start, stop, step)
        schedule  == Schedule(Len(full_list), o.num_threads)
        start_idx == SeqSum(SubSeq(schedule, 1, o.thread_num))
        end_idx   == start_idx + schedule[o.thread_num + 1]
    IN Slice(full_list, start_idx, end_idx)

\* The body's call of region.range(start, stop, step).
Range(p) ==
    /\ pc[p] = "body"
    /\ stack[p] # <<>>
    /\ body.range # NoRange
    /\ LET r == Top(p)
           o == mem[p][r]
       IN /\ <<r, o.thread_num>> \notin DOMAIN chunks
          /\ chunks' = (<<r, o.thread_num>> :>
                           RangeChunk(o, body.range[1], body.range[2],
                                      body.range[3])) @@ chunks
    /\ UNCHANGED <<shared, config, local, owner, ctor_arg, used, attempt,
                   members, faulted, raised, left, yielded, populate_log>>

\* ------------------------------------------------------ dynamic schedule
\* Mutant of Populates: every worker that arrives at the loop fills the
\* queue.
PopulatesAlways(pool_loop_reached, loop_id) == pool_loop_reached <= loop_id

\* xrange, line 173: this worker is the first to reach the loop.
Populates(pool_loop_reached, loop_id) == pool_loop_reached < loop_id

\* xrange, lines 175-176: the queue after the items of the loop are put.
\* An item carries, beside the index, the loop it was put for (`gen`,
\* which no code reads).
Populated(q, start, stop, step, loop_id) ==
    LET items == FullList(start, stop, step)
    IN q \o [i \in 1..Len(items) |-> [idx |-> items[i], gen |-> loop_id]]

\* Parallel.xrange (lines 160-180), all of it under self._queuelock: the
\* body starts its next `for i in region.xrange(body.items)` loop.
XRange(p) ==
    /\ pc[p] = "body"
    /\ stack[p] # <<>>
    /\ iter[p] = None
    /\ LET r == Top(p)
           t == mem[p][r].thread_num
           pool_loop_reached == SeqMax(thread_loop_ids[r])
           loop_id == thread_loop_ids[r][t + 1] + 1
       IN
       /\ loop_id < body.loops
       /\ thread_loop_ids' = [thread_loop_ids EXCEPT ![r][t + 1] = loop_id]
       /\ dynamic_queue' = [dynamic_queue EXCEPT ![r] =
             IF Populates(pool_loop_reached, loop_id)
             THEN Populated(@, body.items, None, 1, loop_id)
             ELSE @]
       /\ populate_log' = [populate_log EXCEPT ![r] =
             IF Populates(pool_loop_reached, loop_id)
             THEN Append(@, loop_id)
             ELSE @]
       /\ iter' = [iter EXCEPT ![p] = loop_id]
    /\ UNCHANGED <<num_procs, exception_queue, data, print_lock, config,
                   proc, level, mem, stack, pc, joined, spent, owner,
                   ctor_arg, used, attempt, members, faulted, raised, left,
                   yielded, chunks>>

\* Mutant of Exhausted: the iterator stops on a retired loop only, and
\* waits in queue.get() on an empty queue.
ExhaustedWhenRetired(pool_loop_reached, loop_id, q) ==
    pool_loop_reached > loop_id

\* Mutant of Exhausted: the iterator stops on an empty queue only.
ExhaustedOnEmpty(pool_loop_reached, loop_id, q) == q = <<>>

\* next, lines 205-206: the iterator is exhausted.
Exhausted(pool_loop_reached, loop_id, q) ==
    pool_loop_reached > loop_id \/ q = <<>>

\* _QueueIterator.next (lines 198-209), all of it under the queue lock:
\* the `for` loop of the body asks for the next item, and ends on
\* StopIteration.
NextItem(p) ==
    /\ pc[p] = "body"
    /\ stack[p] # <<>>
    /\ iter[p] # None
    /\ LET r == Top(p)
           t == mem[p][r].thread_num
           pool_loop_reached == SeqMax(thread_loop_ids[r])
           q == dynamic_queue[r]
       IN
       IF Exhausted(pool_loop_reached, iter[p], q)
       THEN /\ iter' = [iter EXCEPT ![p] = None]
            /\ spent' = [spent EXCEPT ![p] = iter[p]]
            /\ UNCHANGED <<dynamic_queue, yielded>>
       ELSE /\ q # <<>>        \* queue.get() blocks on an empty queue
            /\ dynamic_queue' = [dynamic_queue EXCEPT ![r] = Tail(q)]
            /\ yielded' = yielded (+) SetToBag({[region |-> r,
                              loop |-> iter[p], idx |-> q[1].idx,
                              gen |-> q[1].gen, by |-> t]})
            /\ UNCHANGED <<iter, spent>>
    /\ UNCHANGED <<num_procs, exception_queue, thread_loop_ids, data,
                   print_lock, config, proc, level, mem, stack, pc, joined,
                   owner, ctor_arg, used, attempt, members, faulted, raised,
                   left, chunks, populate_log>>

\* The body leaves its `for` loop early (break): the iterator is dropped
\* before it is exhausted.
Break(p) ==
    /\ pc[p] = "body"
    /\ stack[p] # <<>>
    /\ iter[p] # None
    /\ iter' = [iter EXCEPT ![p] = None]
    /\ UNCHANGED <<shared, config, proc, level, mem, stack, pc, joined,
                   spent, hist>>

\* next() called again on the iterator the body kept after it raised
\* StopIteration (lines 198-209).
NextAgain(p) ==
    /\ pc[p] = "body"
    /\ stack[p] # <<>>
    /\ spent[p] # None
    /\ LET r == Top(p)
           t == mem[p][r].thread_num
           pool_loop_reached == SeqMax(thread_loop_ids[r])
           q == dynamic_queue[r]
       IN
       IF Exhausted(pool_loop_reached, spent[p], q)
       THEN UNCHANGED <<dynamic_queue, yielded>>
       ELSE /\ q # <<>>
            /\ dynamic_queue' = [dynamic_queue EXCEPT ![r] = Tail(q)]
            /\ yielded' = yielded (+) SetToBag({[region |-> r,
                              loop |-> spent[p], idx |-> q[1].idx,
                              gen |-> q[1].gen, by |-> t]})
    /\ UNCHANGED <<num_procs, exception_queue, thread_loop_ids, data,
                   print_lock, config, local, owner, ctor_arg, used,
                   attempt, members, faulted, raised, left, chunks,
                   populate_log>>

\* -------------------------------------------------------------- the body
\* Writes of participant thread_num of region r already in `data`.
Written(r, thread_num) == {w \in data : w[1] = r /\ w[2] = thread_num}

\* The region body appends to a shared container (as the tests do with
\* pymp.shared.list): one of its body.writes writes.
Write(p) ==
    /\ pc[p] = "body"
    /\ stack[p] # <<>>
    /\ LET r == Top(p)
           t == mem[p][r].thread_num
           i == Cardinality(Written(r, t)) + 1
       IN /\ i <= body.writes
          /\ data' = data \cup {<<r, t, i>>}
    /\ UNCHANGED <<num_procs, exception_queue, thread_loop_ids,
                   dynamic_queue, print_lock, config, local, hist>>

\* ---------------------------------------------------- synchronized output
\* A lock of pymp.shared can be acquired: no process holds it.
LockFree(l) == l = 0

\* Mutant of PrintMayStart: print writes without waiting for the lock.
PrintUnlocked(l) == TRUE

\* Parallel.print, line 137: the write starts once `with
\* _shared._PRINT_LOCK` has the lock.
PrintMayStart(l) == LockFree(l)

\* Parallel.print, line 137: `with _shared._PRINT_LOCK:` acquires the lock,
\* which blocks the caller while another process holds it.
PrintAcquire(p) ==
    /\ pc[p] = "body"
    /\ PrintMayStart(print_lock)
    /\ print_lock' = p
    /\ pc' = [pc EXCEPT ![p] = "print"]
    /\ UNCHANGED <<num_procs, exception_queue, thread_loop_ids,
                   dynamic_queue, data, config, proc, level, mem, stack,
                   joined, iter, spent, hist>>

\* Parallel.print, line 138: print(*args, **kwargs) writes to sys.stdout.
PrintWrite(p) ==
    /\ pc[p] = "print"
    /\ pc' = [pc EXCEPT ![p] = "flush"]
    /\ UNCHANGED <<shared, config, proc, level, mem, stack, joined, iter, spent,
                   hist>>

\* Parallel.print, line 139 and the end of the `with` block: the flush,
\* then the lock is released and the call returns.
PrintFlush(p) ==
    /\ pc[p] = "flush"
    /\ print_lock' = IF print_lock = p THEN 0 ELSE print_lock
    /\ pc' = [pc EXCEPT ![p] = "body"]
    /\ UNCHANGED <<num_procs, exception_queue, thread_loop_ids,
                   dynamic_queue, data, config, proc, level, mem, stack,
                   joined, iter, spent, hist>>

\* ------------------------------------------------------------------- exit
\* os._exit(1): the process is gone, and its memory with it.
Terminate(p) ==
    /\ proc' = [proc EXCEPT ![p] = "exited"]
    /\ pc' = [pc EXCEPT ![p] = "none"]
    /\ mem' = [mem EXCEPT ![p] = <<>>]
    /\ stack' = [stack EXCEPT ![p] = <<>>]
    /\ level' = [level EXCEPT ![p] = 0]
    /\ nested' = [nested EXCEPT ![p] = FALSE]
    /\ used' = [used EXCEPT ![p] = {}]

\* Mutant of Record: a forked process exits before it records its fault.
RecordCoordinatorOnly(q, exc, thread_num) ==
    IF exc /\ thread_num = 0 THEN Append(q, thread_num) ELSE q

\* __exit__, lines 87-89: what the exception queue holds after the call.
Record(q, exc, thread_num) == IF exc THEN Append(q, thread_num) ELSE q

\* Mutant of ExitsProcess: a forked process goes on like the coordinator.
ExitsProcessNever(o) == FALSE

\* __exit__, line 90: the process calls os._exit.
ExitsProcess(o) == o.is_fork

\* __exit__, lines 85-93, of the innermost region: record the body's fault
\* (exc = TRUE), then a forked process exits and the coordinator goes on
\* to wait for its children.
Exit(p, exc) ==
    /\ pc[p] = "body"
    /\ stack[p] # <<>>
    /\ LET r == Top(p)
           o == mem[p][r]
       IN
       /\ exception_queue' = [exception_queue EXCEPT
                                 ![r] = Record(@, exc, o.thread_num)]
       /\ faulted' = [faulted EXCEPT
                         ![r] = IF exc THEN @ \cup {o.thread_num} ELSE @]
       /\ IF ExitsProcess(o)
          THEN /\ Terminate(p)
               /\ UNCHANGED joined
          ELSE /\ pc' = [pc EXCEPT ![p] = "wait"]
               /\ joined' = [joined EXCEPT ![p] = 0]
               /\ UNCHANGED <<proc, mem, stack, level, nested, used>>
    \* the body's `for` loop, if it was in one, is left with the body
    /\ iter' = [iter EXCEPT ![p] = None]
    /\ UNCHANGED <<num_procs, thread_loop_ids, dynamic_queue, data,
                   print_lock, cfg_num_threads, thread_limit, body, spent,
                   owner, ctor_arg, attempt, members, raised, left, yielded,
                   chunks, populate_log>>

\* The body raises: the `with` statement calls __exit__ with the exception.
BodyFault(p) == Exit(p, TRUE)

\* The body runs to its end: __exit__ is called with exc_t = None.
BodyDone(p) ==
    /\ stack[p] # <<>>
    /\ Cardinality(Written(Top(p), mem[p][Top(p)].thread_num)) = body.writes
    /\ body.range # NoRange =>
          <<Top(p), mem[p][Top(p)].thread_num>> \in DOMAIN chunks
    /\ iter[p] = None
    /\ body.loops > 0 =>
          thread_loop_ids[Top(p)][mem[p][Top(p)].thread_num + 1] + 1
             >= body.loops
    /\ Exit(p, FALSE)

\* Mutant of Waitable: waitpid with WNOHANG, which never blocks.
WaitableNoHang(pid) == TRUE

\* os.waitpid(pid, 0) returns once the child has terminated.
Waitable(pid) == proc[pid] = "exited"

\* Mutant of JoinOver: only the first child is waited for.
JoinOverAfterFirst(o, n) == n >= Min(1, Len(o.pids))

\* __exit__, line 94: the join loop `for pid in self._pids` is over after n
\* iterations.
JoinOver(o, n) == n >= Len(o.pids)

\* __exit__, lines 94-97: one iteration of the join loop.
WaitPid(p) ==
    /\ pc[p] = "wait"
    /\ ~JoinOver(mem[p][Top(p)], joined[p])
    /\ Waitable(mem[p][Top(p)].pids[joined[p] + 1])
    /\ joined' = [joined EXCEPT ![p] = @ + 1]
    /\ UNCHANGED <<shared, config, proc, level, mem, stack, pc, iter, spent,
                   hist>>

\* __exit__, lines 106-109: whether an exception is reported.
ExcOccured(q) == q # <<>>

\* __exit__, lines 98-116, once the join loop is over: give the workers
\* back to the counter, leave the nesting level, drain the exception queue
\* and raise the one aggregated exception, or return; the `with` block is
\* left.
ExitFinish(p) ==
    /\ pc[p] = "wait"
    /\ JoinOver(mem[p][Top(p)], joined[p])
    /\ LET r == Top(p)
       IN
       /\ num_procs' = num_procs - Len(mem[p][r].pids)
       /\ level' = [level EXCEPT ![p] = @ - 1]
       /\ exception_queue' = [exception_queue EXCEPT ![r] = <<>>]
       /\ raised' = [raised EXCEPT
                        ![r] = IF ExcOccured(exception_queue[r])
                               THEN @ + 1 ELSE @]
       /\ left' = [left EXCEPT ![r] = TRUE]
       /\ stack' = [stack EXCEPT ![p] = SubSeq(@, 1, Len(@) - 1)]
       /\ pc' = [pc EXCEPT ![p] = "body"]
    /\ UNCHANGED <<thread_loop_ids, dynamic_queue, data, print_lock,
                   config,
                   proc, mem, joined, iter, spent, owner, ctor_arg, used,
                   attempt, members, faulted, yielded, chunks, populate_log>>

\* ------------------------------------------------------------ the lifecycle
\* Regions entered from the top level and from region bodies, in every
\* process, with bodies that fault or run to their end.
Next ==
    \/ \E p \in Procs : SetNested(p, TRUE)
    \/ \E p \in Procs, arg \in Requests : EnterNew(p, arg)
    \/ \E p \in Procs, r \in Regions : EnterAgain(p, r)
    \/ \E p \in Procs : Fork(p)
    \/ \E p \in Procs : BodyFault(p)
    \/ \E p \in Procs : BodyDone(p)
    \/ \E p \in Procs : WaitPid(p)
    \/ \E p \in Procs : ExitFinish(p)

Spec == Init /\ [][Next]_vars

\* --------------------------------------------------- bodies that write
\* Runs whose region bodies write to the shared container, with and
\* without nesting, in regions of two or three processes.
InitBody ==
    \E num_threads \in {<<2>>, <<3>>}, nest \in BOOLEAN :
        Start(num_threads, None, nest,
              [writes |-> BodyLen, loops |-> 0, items |-> 0,
               range |-> NoRange])

NextBody ==
    \/ \E p \in Procs : EnterNew(p, None)
    \/ \E p \in Procs : Fork(p)
    \/ \E p \in Procs : Write(p)
    \/ \E p \in Procs : BodyFault(p)
    \/ \E p \in Procs : BodyDone(p)
    \/ \E p \in Procs : WaitPid(p)
    \/ \E p \in Procs : ExitFinish(p)

SpecBody == InitBody /\ [][NextBody]_vars

\* ------------------------------------------------- bodies that call range
\* One region of 1..MaxProcs processes whose body calls
\* region.range(start, stop, step) once, for every argument triple.
RangeCalls ==
    {<<start, stop, step>> : start \in 0..MaxStop,
                             stop \in {None} \cup 0..MaxStop,
                             step \in {-2, -1, 1, 2, 3}}

InitRange ==
    \E num_threads \in 1..MaxProcs, call \in RangeCalls :
        Start(<<num_threads>>, None, FALSE,
              [writes |-> 0, loops |-> 0, items |-> 0, range |-> call])

\* The program enters one region, from the top level.
FirstRegion(p) == p = Main /\ \A r \in Regions : owner[r] = 0

NextRange ==
    \/ \E p \in Procs : FirstRegion(p) /\ EnterNew(p, None)
    \/ \E p \in Procs : Fork(p)
    \/ \E p \in Procs : Range(p)
    \/ \E p \in Procs : BodyDone(p)
    \/ \E p \in Procs : WaitPid(p)
    \/ \E p \in Procs : ExitFinish(p)

SpecRange == InitRange /\ [][NextRange]_vars

\* ----------------------------------------------- bodies with xrange loops
\* One region of 1..MaxWorkers processes whose body runs 1..MaxLoops loops
\* `for i in region.xrange(items)`, each to the end of its iterator.
InitDyn ==
    \E num_threads \in 1..MaxWorkers, loops \in 1..MaxLoops,
       items \in 0..MaxItems :
        Start(<<num_threads>>, None, FALSE,
              [writes |-> 0, loops |-> loops, items |-> items,
               range |-> NoRange])

NextDyn ==
    \/ \E p \in Procs : FirstRegion(p) /\ EnterNew(p, None)
    \/ \E p \in Procs : Fork(p)
    \/ \E p \in Procs : XRange(p)
    \/ \E p \in Procs : NextItem(p)
    \/ \E p \in Procs : BodyDone(p)
    \/ \E p \in Procs : WaitPid(p)
    \/ \E p \in Procs : ExitFinish(p)

SpecDyn == InitDyn /\ [][NextDyn]_vars

\* --------------------------------------- bodies that leave loops early
\* As SpecDyn, with bodies that may break out of a loop and that may call
\* next() again on an iterator that has raised StopIteration.
NextIter ==
    \/ NextDyn
    \/ \E p \in Procs : Break(p)
    \/ \E p \in Procs : NextAgain(p)

SpecIter == InitDyn /\ [][NextIter]_vars

\* ------------------------------------------------------ fair scheduling
\* What process p does next in a run of SpecDyn, except raising a fault.
Step(p) ==
    \/ FirstRegion(p) /\ EnterNew(p, None)
    \/ Fork(p)
    \/ XRange(p)
    \/ NextItem(p)
    \/ BodyDone(p)
    \/ WaitPid(p)
    \/ ExitFinish(p)

\* The runs of SpecDyn, with bodies that may also raise at any point.
NextFair ==
    \/ \E p \in Procs : Step(p)
    \/ \E p \in Procs : BodyFault(p)

\* Every process that can take a step is scheduled in the end (the
\* operating system's scheduler); a body need not raise.
SpecFair ==
    InitDyn /\ [][NextFair]_vars /\ \A p \in Procs : WF_vars(Step(p))

\* ------------------------------------------------- callers that re-enter
\* __enter__ called on an object whose __enter__ has already returned: in
\* the region body (the object is on the caller's `with` stack) or after
\* the exit.  The depth of the `with` stack is capped at MaxRegions.
Reenter(p, r) ==
    /\ pc[p] = "body"
    /\ r \in DOMAIN mem[p]
    /\ r \in used[p]
    /\ Len(stack[p]) < MaxRegions
    /\ UNCHANGED <<owner, ctor_arg>>
    /\ EnterBody(p, r, mem[p][r])

InitReenter ==
    \E num_threads \in {<<1>>, <<2>>}, nest \in BOOLEAN :
        Start(num_threads, None, nest, EmptyBody)

NextReenter ==
    \/ \E p \in Procs : EnterNew(p, None)
    \/ \E p \in Procs, r \in Regions : Reenter(p, r)
    \/ \E p \in Procs : Fork(p)
    \/ \E p \in Procs : BodyDone(p)
    \/ \E p \in Procs : WaitPid(p)
    \/ \E p \in Procs : ExitFinish(p)

SpecReenter == InitReenter /\ [][NextReenter]_vars

\* ------------------------------------- callers that change the thread limit
\* Nested regions, with a thread limit that the program assigns while it
\* runs: before a region, or in a region body.
NewLimits == {1}

InitLimit ==
    \E num_threads \in {<<2>>, <<3>>}, limit \in {None, 3} :
        Start(num_threads, limit, TRUE, EmptyBody)

NextLimit ==
    \/ \E p \in Procs, v \in NewLimits : SetThreadLimit(p, v)
    \/ \E p \in Procs, arg \in {None, 2} : EnterNew(p, arg)
    \/ \E p \in Procs : Fork(p)
    \/ \E p \in Procs : BodyDone(p)
    \/ \E p \in Procs : WaitPid(p)
    \/ \E p \in Procs : ExitFinish(p)

SpecLimit == InitLimit /\ [][NextLimit]_vars

\* ------------------------------------------------ bodies that call print
\* One region of 2..MaxProcs processes whose body calls Parallel.print any
\* number of times; the main process also prints outside the region.
InitPrint ==
    \E num_threads \in 2..MaxProcs :
        Start(<<num_threads>>, None, FALSE, EmptyBody)

NextPrint ==
    \/ \E p \in Procs : FirstRegion(p) /\ EnterNew(p, None)
    \/ \E p \in Procs : Fork(p)
    \/ \E p \in Procs : PrintAcquire(p)
    \/ \E p \in Procs : PrintWrite(p)
    \/ \E p \in Procs : PrintFlush(p)
    \/ \E p \in Procs : BodyFault(p)
    \/ \E p \in Procs : BodyDone(p)
    \/ \E p \in Procs : WaitPid(p)
    \/ \E p \in Procs : ExitFinish(p)

SpecPrint == InitPrint /\ [][NextPrint]_vars

\* ================================================================= claims
\* The worker processes of region r: the members a fork created.
Workers(r) == {m \in members[r] : m[3] # 0}
ThreadNums(r) == {m[2] : m \in members[r]}
\* p has returned from __enter__ of r (it is past the fork loop).
EntryDone(p, r) == r \in used[p] /\ ~(pc[p] = "fork" /\ Top(p) = r)

\* C3 -- exception aggregation: a region's exit raises the aggregated
\* exception exactly once if some participant's body raised (a worker or
\* the coordinator), and not at all otherwise; nothing is raised before the
\* exit.
C3_ExceptionAggregation ==
    \A r \in Regions :
        raised[r] = IF left[r] /\ faulted[r] # {} THEN 1 ELSE 0

\* C3 witness: an exit that raised once for a coordinator and a worker that
\* both faulted.
C3_Witness ==
    \E r \in Regions :
        /\ left[r] /\ raised[r] = 1
        /\ 0 \in faulted[r] /\ Cardinality(faulted[r]) >= 2

\* C4 -- join before surfacing: the coordinator gets past the join loop,
\* and has drained the queue, raised or returned, only when every worker it
\* forked for the region has terminated.
C4_JoinBeforeSurfacing ==
    /\ \A r \in Regions :
          (left[r] \/ raised[r] > 0) =>
              \A m \in Workers(r) : proc[m[1]] = "exited"
    /\ \A p \in Procs :
          (pc[p] = "wait" /\ JoinOver(mem[p][Top(p)], joined[p])) =>
              \A m \in Workers(Top(p)) : m[3] = p => proc[m[1]] = "exited"

\* C4 witness: a region of three processes left with the aggregated
\* exception raised.
C4_Witness ==
    \E r \in Regions :
        left[r] /\ raised[r] = 1 /\ Cardinality(Workers(r)) >= 2

\* C6 -- thread limit: with a limit configured the active-worker counter
\* never exceeds it.
C6_ThreadLimit ==
    thread_limit[Main] # None => num_procs <= thread_limit[Main]

\* C6 witness: two processes of one outer region are each inside a nested
\* region of their own and the counter is at the limit.
C6_Witness ==
    /\ thread_limit[Main] # None /\ num_procs = thread_limit[Main]
    /\ \E p, q \in Procs :
          /\ p # q
          /\ Len(stack[p]) = 2 /\ Len(stack[q]) = 2
          /\ pc[p] = "body" /\ pc[q] = "body"
          /\ stack[p][1] = stack[q][1] /\ stack[p][2] # stack[q][2]

\* C7 -- worker indices: once the coordinator is back from __enter__ with
\* num_threads = n, the region has n participants with the thread_nums
\* 0..n-1, the coordinator holds 0, every other participant was forked by
\* the coordinator and is in its pid list (n-1 pids); a top-level
\* Parallel(4) under thread_limit = 3 gets the indices 0, 1, 2.
C7_WorkerIndices ==
    \A r \in Regions : \A c \in members[r] :
        (c[3] = 0 /\ r \in DOMAIN mem[c[1]] /\ EntryDone(c[1], r)) =>
            LET o == mem[c[1]][r]
                n == o.num_threads
            IN /\ Cardinality(members[r]) = n
               /\ ThreadNums(r) = 0..(n - 1)
               /\ c[2] = 0
               /\ \A m \in Workers(r) : m[3] = c[1]
               /\ Len(o.pids) = n - 1
               /\ {o.pids[i] : i \in 1..Len(o.pids)} =
                     {m[1] : m \in Workers(r)}
               /\ (thread_limit[Main] = 3 /\ ctor_arg[r] = 4 /\ c[1] = Main
                   /\ stack[Main] # <<>> /\ stack[Main][1] = r)
                      => ThreadNums(r) = {0, 1, 2}

\* C7 witness: the region of Parallel(4) under thread_limit = 3, entered.
C7_Witness ==
    \E r \in Regions :
        /\ thread_limit[Main] = 3 /\ ctor_arg[r] = 4
        /\ stack[Main] = <<r>> /\ pc[Main] = "body"
        /\ Cardinality(members[r]) = 3

ExpectedRequest(arg, lvl) ==
    IF arg # None THEN arg
    ELSE IF Len(cfg_num_threads) = 1 THEN cfg_num_threads[1]
    ELSE IF lvl < Len(cfg_num_threads) THEN cfg_num_threads[lvl + 1]
    ELSE None

\* C10 -- thread-count resolution: a successful __enter__ requests the
\* explicit argument, else the single configured count, else the
\* configured count of the nesting level at entry; and without an explicit
\* argument it fails with the configuration error when a multi-element
\* list has no element for that level.
C10_Resolution ==
    /\ attempt.result = "ok" =>
          attempt.requested = ExpectedRequest(attempt.arg, attempt.level)
    /\ (attempt.result # "none" /\ ~attempt.entered /\ attempt.arg = None
        /\ Len(cfg_num_threads) > 1
        /\ Len(cfg_num_threads) <= attempt.level)
          => attempt.result = "config"

\* C5 -- sibling isolation: when the coordinator's exit completes, every
\* participant whose body did not raise has run its whole body, and all its
\* writes are in the shared container, whatever the other participants did.
C5_SiblingIsolation ==
    \A r \in Regions :
        left[r] =>
            \A m \in members[r] :
                m[2] \notin faulted[r] =>
                    \A i \in 1..body.writes : <<r, m[2], i>> \in data

\* C5 witness: the exit raised for a worker that faulted before writing
\* anything, and the writes of its two siblings are there.
C5_Witness ==
    \E r \in Regions :
        /\ left[r] /\ raised[r] = 1
        /\ Cardinality(members[r]) = 3
        /\ Cardinality(faulted[r]) = 1
        /\ \A t \in faulted[r] : Written(r, t) = {}
        /\ \A t \in ThreadNums(r) \ faulted[r] :
              Cardinality(Written(r, t)) = body.writes
        /\ body.writes > 0

\* C8 -- a region is entered at most once: an __enter__ on an object whose
\* __enter__ has already returned fails, in every process and for every
\* num_threads.
C8_EnteredAtMostOnce ==
    (attempt.result # "none" /\ attempt.entered) => attempt.result # "ok"

\* The yields of region r's iterators of loop k.
Yields(r, k) == {e \in BagToSet(yielded) : e.region = r /\ e.loop = k}
\* How many times the iterators of loop k of region r yielded index i.
YieldCount(r, k, i) ==
    LET es == {e \in Yields(r, k) : e.idx = i}
    IN SumOver([e \in es |-> CopiesIn(e, yielded)], es)
YieldTotal(r, k) ==
    SumOver([e \in Yields(r, k) |-> CopiesIn(e, yielded)], Yields(r, k))

\* C1 -- dynamic scheduling hands out each item exactly once: when every
\* process of a region has run its xrange(N) loops to the end of their
\* iterators and the region is left, every index of [0, N) was yielded
\* exactly once for each loop, by one worker, and N items were yielded for
\* the loop in all.
C1_ExactlyOnce ==
    \A r \in Regions :
        (left[r] /\ body.loops > 0) =>
            \A k \in 0..(body.loops - 1) :
                /\ \A i \in 0..(body.items - 1) : YieldCount(r, k, i) = 1
                /\ YieldTotal(r, k) = body.items

\* C1 witness: a region left after two workers shared the items of a
\* loop.
C1_Witness ==
    \E r \in Regions :
        /\ left[r] /\ body.items >= 2
        /\ \E e, f \in Yields(r, 0) : e.by # f.by

RECURSIVE ConcatChunks(_, _)
\* The chunks of thread_num 0..n-1 of region r, in index order.
ConcatChunks(r, n) ==
    IF n = 0 THEN <<>> ELSE ConcatChunks(r, n - 1) \o chunks[<<r, n - 1>>]

\* C2 -- static partition: the chunks range() returned to thread_num
\* 0..W-1, concatenated in index order, are the full stride sequence; two
\* chunk sizes differ by at most one; the L mod W lowest indices get the
\* larger chunks.
C2_StaticPartition ==
    \A r \in Regions :
        (left[r] /\ body.range # NoRange) =>
            LET W == Cardinality(members[r])
                stride == FullList(body.range[1], body.range[2],
                                   body.range[3])
                L == Len(stride)
            IN /\ \A t \in 0..(W - 1) : <<r, t>> \in DOMAIN chunks
               /\ ConcatChunks(r, W) = stride
               /\ \A t, u \in 0..(W - 1) :
                     Len(chunks[<<r, t>>]) - Len(chunks[<<r, u>>]) <= 1
               /\ \A t \in 0..(W - 1) :
                     Len(chunks[<<r, t>>]) =
                        (L \div W) + (IF t < L % W THEN 1 ELSE 0)

\* C2 witness: four items with a negative step split over three workers,
\* two for thread 0 and one for each of the others.
C2_Witness ==
    \E r \in Regions :
        /\ left[r] /\ body.range = <<4, 0, -1>>
        /\ Cardinality(members[r]) = 3
        /\ chunks[<<r, 0>>] = <<4, 3>>
        /\ chunks[<<r, 1>>] = <<2>>
        /\ chunks[<<r, 2>>] = <<1>>

Max(a, b) == IF a > b THEN a ELSE b

\* p's step is an __enter__ that gets past its assertions: the `with`
\* stack of p grows (lines 59-69 run).
Enters(p) == pc[p] = "body" /\ Len(stack'[p]) = Len(stack[p]) + 1

\* C11 -- thread-limit clamp: an entry under a configured limit resolves
\* num_threads to min(requested, limit - active + 1) floored at 1, which is
\* never less than 1, and adds num_threads - 1 to the counter.
C11_ClampFloored ==
    [][\A p \in Procs :
          (Enters(p) /\ thread_limit[p] # None) =>
              LET n == mem'[p][stack'[p][Len(stack'[p])]].num_threads
              IN /\ n = Max(1, Min(attempt'.requested,
                                   thread_limit[p] - num_procs + 1))
                 /\ n >= 1
                 /\ num_procs' = num_procs + n - 1]_vars

\* p's step completes the __exit__ of its innermost region (the coordinator
\* is back in the code after the `with` block, or the aggregated exception
\* propagates from there).
Leaves(p) == pc[p] = "wait" /\ pc'[p] = "body"

\* The program is back at the top level: no region is open and every
\* forked process has terminated.
TopLevel ==
    /\ stack[Main] = <<>> /\ pc[Main] = "body"
    /\ \A p \in Procs \ {Main} : proc[p] # "running"

\* C12 -- counter round-trip: the coordinator's exit, raising or not, takes
\* from the counter the num_threads - 1 that the entry of the region added
\* to it and takes the nesting level back by the one the entry added;
\* whenever the program is back at the top level the counter is 1 and the
\* level is 0.
C12_RoundTrip ==
    [][/\ \A p \in Procs :
             Leaves(p) =>
                 /\ num_procs' =
                       num_procs - (mem[p][Top(p)].num_threads - 1)
                 /\ level'[p] = level[p] - 1
       /\ TopLevel' => (num_procs' = InitialProcs /\ level'[Main] = 0)]_vars

\* The processes inside Parallel.print, between the acquisition of the
\* output lock and the end of the flush.
Printing == {p \in Procs : pc[p] \in {"print", "flush"}}

\* C13 -- synchronized output: at most one process of the tree is between
\* the start of its write and the end of its flush, it is the holder of the
\* output lock, and the lock is free whenever no call is in progress.
C13_SynchronizedOutput ==
    /\ Cardinality(Printing) <= 1
    /\ \A p \in Printing : print_lock = p
    /\ Printing = {} => print_lock = 0

\* C13 witness: a worker is about to flush while the coordinator and another
\* worker, both in the region body, wait for the lock.
C13_Witness ==
    \E p \in Procs \ {Main} :
        /\ pc[p] = "flush"
        /\ Cardinality({q \in Procs : pc[q] = "body" /\ stack[q] # <<>>}) = 2

\* Loop k of region r has been reached: some worker's slot is at k or past.
Reached(r, k) ==
    thread_loop_ids[r] # <<>> /\ SeqMax(thread_loop_ids[r]) >= k

\* The entries of the populate log of r for loop k.
PopulatesOf(r, k) ==
    {i \in 1..Len(populate_log[r]) : populate_log[r][i] = k}

\* C14 -- single populator: a loop id that some worker of the region has
\* reached has had its queue filled exactly once, by one worker, and a loop
\* id that nobody has reached not at all; under every interleaving, with
\* loops run to their end or left early.
C14_SinglePopulator ==
    \A r \in Regions : \A k \in 0..(MaxLoops - 1) :
        Cardinality(PopulatesOf(r, k)) = IF Reached(r, k) THEN 1 ELSE 0

\* C14 witness: two workers have both reached the second loop, and the
\* queue has been filled twice, once for each loop.
C14_Witness ==
    \E r \in Regions :
        /\ Len(thread_loop_ids[r]) = 2
        /\ thread_loop_ids[r][1] = 1 /\ thread_loop_ids[r][2] = 1
        /\ populate_log[r] = <<0, 1>>

\* C15 -- isolation of successive loops: with every loop run until its
\* iterator is exhausted, an iterator of loop k yields only items that
\* were put for loop k.
C15_LoopIsolation ==
    \A e \in BagToSet(yielded) : e.gen = e.loop

\* C15 witness: an item of the second loop has been yielded while another
\* worker has not yet reached the second loop.
C15_Witness ==
    \E e \in BagToSet(yielded) :
        /\ e.loop = 1
        /\ \E i \in 1..Len(thread_loop_ids[e.region]) :
              thread_loop_ids[e.region][i] < 1

\* C16 -- abandonment: an item that was put for a loop and is still queued
\* when a worker advances to the next loop is never yielded afterwards: no
\* iterator yields an item put for a loop older than its own (an iterator
\* yields only while its loop is the newest one reached).
C16_Abandonment ==
    \A e \in BagToSet(yielded) : ~(e.gen < e.loop)

\* How many items the iterator of loop k of thread_num t has yielded.
YieldsOf(r, k, t) ==
    LET es == {e \in Yields(r, k) : e.by = t}
    IN SumOver([e \in es |-> CopiesIn(e, yielded)], es)

\* The yields of the step.
NewYields ==
    {e \in BagToSet(yielded') : CopiesIn(e, yielded') > CopiesIn(e, yielded)}

OpenRegions(p) == {stack[p][i] : i \in 1..Len(stack[p])}

\* C18 -- only the coordinator leaves the region: a process forked for
\* region r is, as long as it runs, inside the `with` block of r and never
\* in the join of r; once it has terminated, with or without a fault, it
\* stays terminated, and the fault of a worker that raised is in the
\* exception queue of r from its termination until the coordinator drains
\* the queue.
C18_OnlyCoordinatorLeaves ==
    \A r \in Regions : \A m \in Workers(r) :
        /\ proc[m[1]] \in {"running", "exited"}
        /\ proc[m[1]] = "running" =>
              /\ r \in OpenRegions(m[1])
              /\ ~(pc[m[1]] = "wait" /\ Top(m[1]) = r)
        /\ proc[m[1]] = "exited" => pc[m[1]] = "none"
        /\ (proc[m[1]] = "exited" /\ m[2] \in faulted[r]) =>
              \/ \E i \in 1..Len(exception_queue[r]) :
                    exception_queue[r][i] = m[2]
              \/ left[r]

\* C18 witness: a region is left whose two workers have terminated, one
\* after a fault and one without.
C18_Witness ==
    \E r \in Regions :
        /\ left[r]
        /\ \E m, n \in Workers(r) :
              /\ proc[m[1]] = "exited" /\ proc[n[1]] = "exited"
              /\ m[2] \in faulted[r] /\ n[2] \notin faulted[r]

\* Region r is over: the coordinator's exit has completed, every process
\* forked for it has terminated and no iteration is in progress.
RegionOver(r) ==
    /\ left[r]
    /\ \A m \in Workers(r) : proc[m[1]] = "exited"
    /\ \A p \in Procs : proc[p] = "running" => iter[p] = None

\* A process is inside a region or its exit.
Busy == \E p \in Procs : proc[p] = "running" /\ stack[p] # <<>>

\* C19 -- region exit terminates: under fair scheduling a region that has
\* been entered is over in the end, whether its bodies end normally or by a
\* fault; and as long as a process is inside a region some process can
\* take a step (the participants are never all blocked).
C19_ExitTerminates ==
    /\ \A r \in Regions : (owner[r] # 0) ~> RegionOver(r)
    /\ [](Busy => ENABLED NextFair)

\* C19 witness: the coordinator is blocked in the join on a worker that is
\* still in a loop.
C19_Witness ==
    \E p, q \in Procs :
        /\ pc[p] = "wait" /\ joined[p] = 0
        /\ mem[p][Top(p)].pids # <<>>
        /\ q = mem[p][Top(p)].pids[1]
        /\ proc[q] = "running" /\ iter[q] # None

\* The step is an __enter__ that raises one of its assertion errors.
FailedEntry ==
    attempt' # attempt /\ attempt'.result \in {"used", "config", "nested"}

\* C20 -- a failed entry changes nothing: it forks no process and leaves
\* the caller's nesting level, the counter and the fields of the object
\* (pid list, num_threads, worker index) as they were, so that the object
\* is as good as new for a later entry.
C20_FailedEntryFrame ==
    [][FailedEntry =>
          LET p == attempt'.pid
              r == attempt'.region
              before == IF r \in DOMAIN mem[p] THEN mem[p][r]
                        ELSE NewParallel(attempt'.arg)
          IN /\ proc' = proc
             /\ level' = level
             /\ num_procs' = num_procs
             /\ used' = used
             /\ mem'[p][r].pids = before.pids
             /\ mem'[p][r].num_threads = before.num_threads
             /\ mem'[p][r] = before]_vars

====================================================================
